---- MODULE Spec2Model ----
(***************************************************************************)
(* createRenderStates (DSFMLC/Graphics/CreateRenderStates.hpp): the        *)
(* conversion of six blend codes, a transform buffer and two optional      *)
(* resource wrappers into an sf::RenderStates value.                       *)
(*                                                                         *)
(* Pointers are strings ("NULL", the name of a wrapper, the name of the    *)
(* object a wrapper holds).  An enumeration value is a record that carries *)
(* its enumeration type and its underlying integer.                        *)
(***************************************************************************)
EXTENDS Integers, Sequences, FiniteSets, TLC

\* ------------------------------------------------------------------ bounds

\* Largest channel value of a pixel; channels are 0..MaxChannel.
MaxChannel == 1

\* Number of calls in flight (SpecConc) or made one after the other (SpecPair).
NThreads == 2

\* How far past the representable range of an enumeration the drawn codes go.
Beyond == 1

\* ------------------------------------------------- enumerations (sf::BlendMode)

\* sf::BlendMode::Factor, in declaration order: member i has value i - 1.
FactorTable ==
    << "Zero", "One", "SrcColor", "OneMinusSrcColor", "DstColor",
       "OneMinusDstColor", "SrcAlpha", "OneMinusSrcAlpha", "DstAlpha",
       "OneMinusDstAlpha" >>

\* sf::BlendMode::Equation, in declaration order.
EquationTable == << "Add", "Subtract", "ReverseSubtract" >>

\* Largest member value of an enumeration given by its table.
MaxMember(table) == Len(table) - 1

RECURSIVE BitsFor(_)
\* Number of bits needed to hold the non-negative value n.
BitsFor(n) == IF n = 0 THEN 0 ELSE 1 + BitsFor(n \div 2)

\* Largest value of the range of enumeration values of an enumeration without
\* fixed underlying type: all bits of its largest member set.
RangeMax(table) == 2 ^ BitsFor(MaxMember(table)) - 1

\* The enumeration value of type `enum` with underlying value v.
EnumValue(enum, v) == [enum |-> enum, value |-> v]

Factor(name) ==
    EnumValue("Factor", (CHOOSE i \in 1..Len(FactorTable) : FactorTable[i] = name) - 1)

Equation(name) ==
    EnumValue("Equation", (CHOOSE i \in 1..Len(EquationTable) : EquationTable[i] = name) - 1)

\* static_cast<sf::BlendMode::E>(code): the outcomes of the cast.  Inside the
\* range of enumeration values the value is unchanged; outside it the
\* behaviour is undefined, and a build either stores the integer as it is or
\* keeps only the bits of the enumeration's range.
StaticCast(enum, table, code) ==
    IF code \in 0..RangeMax(table)
    THEN { EnumValue(enum, code) }
    ELSE { EnumValue(enum, code), EnumValue(enum, code % (RangeMax(table) + 1)) }

\* ------------------------------------------------------------ blend modes

\* sf::BlendMode's default constructor: alpha blending.
DefaultBlendMode ==
    [ colorSrcFactor |-> Factor("SrcAlpha"),
      colorDstFactor |-> Factor("OneMinusSrcAlpha"),
      colorEquation  |-> Equation("Add"),
      alphaSrcFactor |-> Factor("One"),
      alphaDstFactor |-> Factor("OneMinusSrcAlpha"),
      alphaEquation  |-> Equation("Add") ]


Pixels == [color : 0..MaxChannel, alpha : 0..MaxChannel]

Clamp(x) == IF x < 0 THEN 0 ELSE IF x > MaxChannel THEN MaxChannel ELSE x

\* The weight a blend factor gives, for channel ch ("color" or "alpha").
FactorWeight(f, ch, src, dst) ==
    CASE f = Factor("Zero")             -> 0
      [] f = Factor("One")              -> MaxChannel
      [] f = Factor("SrcColor")         -> src[ch]
      [] f = Factor("OneMinusSrcColor") -> MaxChannel - src[ch]
      [] f = Factor("DstColor")         -> dst[ch]
      [] f = Factor("OneMinusDstColor") -> MaxChannel - dst[ch]
      [] f = Factor("SrcAlpha")         -> src.alpha
      [] f = Factor("OneMinusSrcAlpha") -> MaxChannel - src.alpha
      [] f = Factor("DstAlpha")         -> dst.alpha
      [] f = Factor("OneMinusDstAlpha") -> MaxChannel - dst.alpha

\* A channel value times a weight, the weight being a fraction of MaxChannel.
Scale(x, w) == (x * w) \div MaxChannel

\* The combination rule of a blend equation.
Combine(eq, s, d) ==
    CASE eq = Equation("Add")             -> Clamp(s + d)
      [] eq = Equation("Subtract")        -> Clamp(s - d)
      [] eq = Equation("ReverseSubtract") -> Clamp(d - s)

\* The pixel that drawing src over dst leaves, under blend mode m.
Blend(m, src, dst) ==
    [ color |-> Combine(m.colorEquation,
                        Scale(src.color, FactorWeight(m.colorSrcFactor, "color", src, dst)),
                        Scale(dst.color, FactorWeight(m.colorDstFactor, "color", src, dst))),
      alpha |-> Combine(m.alphaEquation,
                        Scale(src.alpha, FactorWeight(m.alphaSrcFactor, "alpha", src, dst)),
                        Scale(dst.alpha, FactorWeight(m.alphaDstFactor, "alpha", src, dst))) ]

\* -------------------------------------------------------------- transforms

\* Side of the matrix a transform buffer holds.
MatDim == 4

\* The buffer of the identity matrix.
IdentityBuffer ==
    [ i \in 1..(MatDim * MatDim) |-> IF (i - 1) \div MatDim = (i - 1) % MatDim THEN 1 ELSE 0 ]

\* The identity with a translation component set.
TranslationBuffer == [ IdentityBuffer EXCEPT ![MatDim] = 1 ]

\* sf::Transform: the value holding a matrix.
Transform(matrix) == [matrix |-> matrix]

IdentityTransform == Transform(IdentityBuffer)

\* createTransform(const float*): the transform holding the buffer's matrix.
createTransform(buffer) == Transform(buffer)

\* ------------------------------------------------------------------ memory

NULL == "NULL"

TextureHandles == { "sfTexture1", "sfTexture2", "sfTexture3" }
ShaderHandles  == { "sfShader1", "sfShader2" }
BufferHandles  == { "identity", "translation" }

\* The memory the callers own, as construction leaves it: each sfTexture
\* wrapper stores in This a pointer to an sf::Texture (two wrappers may share
\* one), each sfShader wrapper embeds its sf::Shader, each buffer holds a
\* matrix.
InitialMemory ==
    [ textureThis |-> ( "sfTexture1" :> "sf::Texture_A" @@
                        "sfTexture2" :> "sf::Texture_A" @@
                        "sfTexture3" :> "sf::Texture_B" ),
      texturePixels |-> ( "sf::Texture_A" :> 0 @@ "sf::Texture_B" :> 1 ),
      shaderProgram |-> ( "sfShader1" :> 0 @@ "sfShader2" :> 1 ),
      buffer |-> ( "identity" :> IdentityBuffer @@ "translation" :> TranslationBuffer ) ]

\* &shader->This: the address of the sf::Shader embedded in a wrapper.
AddressOfThis(shader) ==
    CASE shader = "sfShader1" -> "sfShader1.This"
      [] shader = "sfShader2" -> "sfShader2.This"

\* ---------------------------------------------------------- render states

\* sf::RenderStates' default constructor.
DefaultRenderStates ==
    [ blendMode |-> DefaultBlendMode,
      transform |-> IdentityTransform,
      texture   |-> NULL,
      shader    |-> NULL ]

\* No value: a call that has not returned.
NoResult == [ returned |-> FALSE ]

\* The six casts of lines 46-51, in order: the field assigned, the
\* enumeration cast to, its table, and the parameter cast.
BlendFields ==
    << [ line |-> "L46", field |-> "colorSrcFactor", enum |-> "Factor",   param |-> "colorSrcFactor" ],
       [ line |-> "L47", field |-> "colorDstFactor", enum |-> "Factor",   param |-> "colorDstFactor" ],
       [ line |-> "L48", field |-> "colorEquation",  enum |-> "Equation", param |-> "colorEquation"  ],
       [ line |-> "L49", field |-> "alphaSrcFactor", enum |-> "Factor",   param |-> "alphaSrcFactor" ],
       [ line |-> "L50", field |-> "alphaDstFactor", enum |-> "Factor",   param |-> "alphaDstFactor" ],
       [ line |-> "L51", field |-> "alphaEquation",  enum |-> "Equation", param |-> "alphaEquation"  ] >>

TableOf(enum) == IF enum = "Factor" THEN FactorTable ELSE EquationTable

\* A mutant of CastOutcomes: the source and destination factors of each
\* channel are read from each other's parameter.
CastOutcomesSwapped(k, a) ==
    LET p == CASE BlendFields[k].param = "colorSrcFactor" -> "colorDstFactor"
               [] BlendFields[k].param = "colorDstFactor" -> "colorSrcFactor"
               [] BlendFields[k].param = "alphaSrcFactor" -> "alphaDstFactor"
               [] BlendFields[k].param = "alphaDstFactor" -> "alphaSrcFactor"
               [] OTHER -> BlendFields[k].param
    IN  StaticCast(BlendFields[k].enum, TableOf(BlendFields[k].enum), a[p])

\* The outcomes of the k-th cast for the arguments a.
CastOutcomes(k, a) ==
    StaticCast(BlendFields[k].enum, TableOf(BlendFields[k].enum), a[BlendFields[k].param])

\* The blend mode with the k-th field of BlendFields set to v.
WithField(b, k, v) == [ b EXCEPT ![BlendFields[k].field] = v ]

\* A mutant of TransformOf: the transform is left as default-constructed.
TransformOfDefault(a, m) == IdentityTransform

\* Line 54: createTransform(transform).
TransformOf(a, m) == createTransform(m.buffer[a.transform])

\* A mutant of TextureOf: the wrapper itself is stored.
TextureOfWrapper(a, m) == a.texture

\* Line 55: texture ? texture->This : NULL.
TextureOf(a, m) == IF a.texture # NULL THEN m.textureThis[a.texture] ELSE NULL

\* A mutant of ShaderOf: the shader is taken only when a texture is given.
ShaderOfTextured(a, m) ==
    IF a.shader # NULL /\ a.texture # NULL THEN AddressOfThis(a.shader) ELSE NULL

\* Line 56: shader ? &shader->This : NULL.
ShaderOf(a, m) == IF a.shader # NULL THEN AddressOfThis(a.shader) ELSE NULL

\* What a call hands back: the sf::RenderStates returned, and whether an
\* error was signalled on the way.
Returned(states) == [ returned |-> TRUE, error |-> FALSE, states |-> states ]

\* A mutant of createRenderStates: line 53 is missing, so the blend mode built
\* from the codes never reaches the returned value.
createRenderStatesUnassigned(a, m) ==
    { Returned([ blendMode |-> DefaultBlendMode,
                 transform |-> TransformOf(a, m),
                 texture   |-> TextureOf(a, m),
                 shader    |-> ShaderOf(a, m) ]) }

\* A mutant of createRenderStates: a code that names no member is rejected,
\* the call signalling an error and returning default render states.
createRenderStatesChecked(a, m) ==
    LET named == \A k \in 1..Len(BlendFields) :
                    a[BlendFields[k].param] \in 0..MaxMember(TableOf(BlendFields[k].enum))
    IN  { [ returned |-> TRUE, error |-> ~named,
            states |-> [ blendMode |-> IF named
                                       THEN [ colorSrcFactor |-> f[1], colorDstFactor |-> f[2],
                                              colorEquation  |-> f[3], alphaSrcFactor |-> f[4],
                                              alphaDstFactor |-> f[5], alphaEquation  |-> f[6] ]
                                       ELSE DefaultBlendMode,
                         transform |-> TransformOf(a, m),
                         texture   |-> TextureOf(a, m),
                         shader    |-> ShaderOf(a, m) ] ] :
          f \in CastOutcomes(1, a) \X CastOutcomes(2, a) \X CastOutcomes(3, a)
                \X CastOutcomes(4, a) \X CastOutcomes(5, a) \X CastOutcomes(6, a) }

\* createRenderStates(...) run on its own in memory m: the results the call
\* can hand back (one, unless a cast is undefined).
createRenderStates(a, m) ==
    { Returned([ blendMode |-> [ colorSrcFactor |-> f[1], colorDstFactor |-> f[2],
                                 colorEquation  |-> f[3], alphaSrcFactor |-> f[4],
                                 alphaDstFactor |-> f[5], alphaEquation  |-> f[6] ],
                 transform |-> TransformOf(a, m),
                 texture   |-> TextureOf(a, m),
                 shader    |-> ShaderOf(a, m) ]) :
      f \in CastOutcomes(1, a) \X CastOutcomes(2, a) \X CastOutcomes(3, a)
            \X CastOutcomes(4, a) \X CastOutcomes(5, a) \X CastOutcomes(6, a) }

\* A mutant of MemoryAfter: the call clears the transform buffer it was given.
MemoryAfterClearing(a, m) ==
    [ m EXCEPT !.buffer[a.transform] = [ i \in 1..(MatDim * MatDim) |-> 0 ] ]

\* The memory a call leaves: every parameter is a pointer to const and the
\* body only reads through them.
MemoryAfter(a, m) == m

\* ------------------------------------------------------------------ inputs

Calls == 1..NThreads

\* An argument list.
Arguments(fs, fd, fe, as, ad, ae, bufs, texs, shs) ==
    [ colorSrcFactor : fs, colorDstFactor : fd, colorEquation : fe,
      alphaSrcFactor : as, alphaDstFactor : ad, alphaEquation : ae,
      transform : bufs, texture : texs, shader : shs ]

\* Codes past the range of enumeration values of an enumeration.
PastRange(table) == { RangeMax(table) + k : k \in 1..Beyond }

\* Codes drawn for a factor parameter: two members, the first code that names
\* no member (still inside the range of enumeration values), and codes past
\* the range.
FactorCodes == { 0, 1, MaxMember(FactorTable) + 1 } \cup PastRange(FactorTable)

\* Codes drawn for an equation parameter: a negative code, a member, the first
\* code that names no member, and the first code past the range.
EquationCodes ==
    { 0 - 1, 0, MaxMember(EquationTable) + 1, RangeMax(EquationTable) + 1 }

\* The argument lists Spec draws from.
Inputs ==
    Arguments(FactorCodes, FactorCodes, EquationCodes,
              FactorCodes, FactorCodes, EquationCodes,
              BufferHandles, { NULL, "sfTexture2", "sfTexture3" }, ShaderHandles \cup {NULL})

\* The argument lists SpecTable draws from: every combination of codes that name members.
TableInputs ==
    Arguments(0..MaxMember(FactorTable), 0..MaxMember(FactorTable), 0..MaxMember(EquationTable),
              0..MaxMember(FactorTable), 0..MaxMember(FactorTable), 0..MaxMember(EquationTable),
              {"translation"}, {"sfTexture2"}, {"sfShader1"})

\* The argument lists SpecPair draws from.
PairInputs ==
    Arguments({1, RangeMax(FactorTable) + 1}, {0, 1}, {0, 1},
              {0, 1}, {0, 1}, {0, RangeMax(EquationTable) + 1},
              BufferHandles, {NULL, "sfTexture1"}, {NULL, "sfShader1"})

\* The argument lists each call of SpecConc draws from.
ConcInputs ==
    Arguments({1, RangeMax(FactorTable) + 1}, {0}, {0},
              {1}, {0}, {0},
              {"translation"}, {NULL, "sfTexture1"}, {"sfShader1"})

\* ------------------------------------------------------------------- state

VARIABLES
    mem,         \* the memory the callers own: wrappers, resources, buffers
    args,        \* args[c]: the arguments of call c
    pc,          \* pc[c]: "start", the line call c executes next, or "done"
    blendMode,   \* blendMode[c]: call c's local of line 44
    sfmlStates,  \* sfmlStates[c]: call c's local of line 43
    result       \* result[c]: what call c handed back

vars == << mem, args, pc, blendMode, sfmlStates, result >>

\* A local whose declaration has not been reached.
NotDeclared == [ declared |-> FALSE ]

InitWith(argss) ==
    /\ mem = InitialMemory
    /\ args \in argss
    /\ pc = [ c \in Calls |-> "start" ]
    /\ blendMode = [ c \in Calls |-> NotDeclared ]
    /\ sfmlStates = [ c \in Calls |-> NotDeclared ]
    /\ result = [ c \in Calls |-> NoResult ]

\* The whole of createRenderStates, as one step of call c.
CallAtomic(c) ==
    /\ pc[c] = "start"
    /\ \E r \in createRenderStates(args[c], mem) : result' = [ result EXCEPT ![c] = r ]
    /\ mem' = MemoryAfter(args[c], mem)
    /\ pc' = [ pc EXCEPT ![c] = "done" ]
    /\ UNCHANGED << args, blendMode, sfmlStates >>

\* ------------------------------------------------------- Spec: one call

Init == InitWith({ [ c \in Calls |-> a ] : a \in Inputs })

Next == CallAtomic(1)

Spec == Init /\ [][Next]_vars

\* ------------------------------- SpecTable: one call, every member code

InitTable == InitWith({ [ c \in Calls |-> a ] : a \in TableInputs })

NextTable == CallAtomic(1)

SpecTable == InitTable /\ [][NextTable]_vars

\* ------------------------ SpecPair: calls one after the other, inputs varied

\* The input groups of a call.
InputGroups ==
    { "colorSrcFactor", "colorDstFactor", "colorEquation",
      "alphaSrcFactor", "alphaDstFactor", "alphaEquation",
      "transform", "texture", "shader" }

InitPair == InitWith({ [ c \in Calls |-> a ] : a \in PairInputs })

\* The caller changes one input group of a call it has not made yet.
VaryInput(c, g, v) ==
    /\ c > 1
    /\ pc[c] = "start"
    /\ args[c] = args[1]
    /\ v # args[c][g]
    /\ [ args[c] EXCEPT ![g] = v ] \in PairInputs
    /\ args' = [ args EXCEPT ![c][g] = v ]
    /\ UNCHANGED << mem, pc, blendMode, sfmlStates, result >>

\* Call c is made once the calls before it have returned.
CallInTurn(c) ==
    /\ \A d \in 1..(c - 1) : pc[d] = "done"
    /\ CallAtomic(c)

NextPair ==
    \/ \E c \in Calls : CallInTurn(c)
    \/ \E c \in Calls, g \in InputGroups :
          \E v \in { a[g] : a \in PairInputs } : VaryInput(c, g, v)

SpecPair == InitPair /\ [][NextPair]_vars

\* ------------------------------ SpecConc: calls in flight, line by line

\* The line after each line of the body.
NextLine ==
    [ start |-> "L43", L43 |-> "L44", L44 |-> "L46", L46 |-> "L47", L47 |-> "L48",
      L48 |-> "L49", L49 |-> "L50", L50 |-> "L51", L51 |-> "L53", L53 |-> "L54",
      L54 |-> "L55", L55 |-> "L56", L56 |-> "L58", L58 |-> "done" ]

Advance(c) == pc' = [ pc EXCEPT ![c] = NextLine[pc[c]] ]

\* The object a local of call c names: automatic storage, one per call.
LocalOf(c, locals) == locals[c]

\* A mutant of StoreLocal: the local has static storage, one object for all calls.
StoreLocalStatic(c, locals, v) == [ d \in DOMAIN locals |-> v ]

\* The locals after call c stores v in its own.
StoreLocal(c, locals, v) == [ locals EXCEPT ![c] = v ]

InitConc == InitWith([ Calls -> ConcInputs ])

\* The call is entered.
Enter(c) ==
    /\ pc[c] = "start"
    /\ Advance(c)
    /\ UNCHANGED << mem, args, blendMode, sfmlStates, result >>

\* Line 43: sf::RenderStates sfmlStates;
DeclareStates(c) ==
    /\ pc[c] = "L43"
    /\ sfmlStates' = StoreLocal(c, sfmlStates, DefaultRenderStates)
    /\ Advance(c)
    /\ UNCHANGED << mem, args, blendMode, result >>

\* Line 44: sf::BlendMode blendMode;
DeclareBlendMode(c) ==
    /\ pc[c] = "L44"
    /\ blendMode' = StoreLocal(c, blendMode, DefaultBlendMode)
    /\ Advance(c)
    /\ UNCHANGED << mem, args, sfmlStates, result >>

\* Lines 46-51: blendMode.<field> = static_cast<...>(<parameter>);
AssignBlendField(c, k) ==
    /\ pc[c] = BlendFields[k].line
    /\ \E v \in CastOutcomes(k, args[c]) :
          blendMode' = StoreLocal(c, blendMode, WithField(LocalOf(c, blendMode), k, v))
    /\ Advance(c)
    /\ UNCHANGED << mem, args, sfmlStates, result >>

\* Line 53: sfmlStates.blendMode = blendMode;
AssignBlendMode(c) ==
    /\ pc[c] = "L53"
    /\ sfmlStates' = StoreLocal(c, sfmlStates,
                         [ LocalOf(c, sfmlStates) EXCEPT !.blendMode = LocalOf(c, blendMode) ])
    /\ Advance(c)
    /\ UNCHANGED << mem, args, blendMode, result >>

\* Line 54: sfmlStates.transform = createTransform(transform);
AssignTransform(c) ==
    /\ pc[c] = "L54"
    /\ sfmlStates' = StoreLocal(c, sfmlStates,
                         [ LocalOf(c, sfmlStates) EXCEPT !.transform = TransformOf(args[c], mem) ])
    /\ Advance(c)
    /\ UNCHANGED << mem, args, blendMode, result >>

\* Line 55: sfmlStates.texture = texture ? texture->This : NULL;
AssignTexture(c) ==
    /\ pc[c] = "L55"
    /\ sfmlStates' = StoreLocal(c, sfmlStates,
                         [ LocalOf(c, sfmlStates) EXCEPT !.texture = TextureOf(args[c], mem) ])
    /\ Advance(c)
    /\ UNCHANGED << mem, args, blendMode, result >>

\* Line 56: sfmlStates.shader = shader ? &shader->This : NULL;
AssignShader(c) ==
    /\ pc[c] = "L56"
    /\ sfmlStates' = StoreLocal(c, sfmlStates,
                         [ LocalOf(c, sfmlStates) EXCEPT !.shader = ShaderOf(args[c], mem) ])
    /\ Advance(c)
    /\ UNCHANGED << mem, args, blendMode, result >>

\* Line 58: return sfmlStates;
Return(c) ==
    /\ pc[c] = "L58"
    /\ result' = [ result EXCEPT ![c] = Returned(LocalOf(c, sfmlStates)) ]
    /\ Advance(c)
    /\ UNCHANGED << mem, args, blendMode, sfmlStates >>

NextConc ==
    \E c \in Calls :
        \/ Enter(c)
        \/ DeclareStates(c)
        \/ DeclareBlendMode(c)
        \/ \E k \in 1..Len(BlendFields) : AssignBlendField(c, k)
        \/ AssignBlendMode(c)
        \/ AssignTransform(c)
        \/ AssignTexture(c)
        \/ AssignShader(c)
        \/ Return(c)

SpecConc == InitConc /\ [][NextConc]_vars

\* ------------------------------------------------------------------ claims

\* The sf::RenderStates call c returned.
StatesOf(c) == result[c].states

\* C1: for six codes that all name members, every field of the returned blend
\* mode is the member the enumeration table gives for the code of the
\* parameter of the same name: colour and alpha, source, destination and
\* equation each from their own parameter, none left at its default.
C1_BlendFieldsFollowTable ==
    ( pc[1] = "done" /\ args[1] \in TableInputs ) =>
        LET a == args[1]
            b == StatesOf(1).blendMode
        IN  /\ b.colorSrcFactor = Factor(FactorTable[a.colorSrcFactor + 1])
            /\ b.colorDstFactor = Factor(FactorTable[a.colorDstFactor + 1])
            /\ b.colorEquation  = Equation(EquationTable[a.colorEquation + 1])
            /\ b.alphaSrcFactor = Factor(FactorTable[a.alphaSrcFactor + 1])
            /\ b.alphaDstFactor = Factor(FactorTable[a.alphaDstFactor + 1])
            /\ b.alphaEquation  = Equation(EquationTable[a.alphaEquation + 1])

\* C1 witness: a call with six different member codes has returned a blend
\* mode that differs from the default in every field.
C1_Witness ==
    /\ pc[1] = "done"
    /\ args[1].colorSrcFactor = 2 /\ args[1].colorDstFactor = 5 /\ args[1].colorEquation = 1
    /\ args[1].alphaSrcFactor = 8 /\ args[1].alphaDstFactor = 0 /\ args[1].alphaEquation = 2
    /\ StatesOf(1).blendMode =
          [ colorSrcFactor |-> Factor("SrcColor"), colorDstFactor |-> Factor("OneMinusDstColor"),
            colorEquation |-> Equation("Subtract"), alphaSrcFactor |-> Factor("DstAlpha"),
            alphaDstFactor |-> Factor("Zero"), alphaEquation |-> Equation("ReverseSubtract") ]

\* C2 as stated: a null texture handle gives an absent texture reference, and
\* a non-null handle gives a texture reference equal to that handle.
C2_TextureIsHandle ==
    pc[1] = "done" =>
        /\ args[1].texture = NULL => StatesOf(1).texture = NULL
        /\ args[1].texture # NULL => StatesOf(1).texture = args[1].texture

\* C2 amended: a null texture handle gives an absent texture reference, and a
\* non-null handle gives the pointer its wrapper holds in This: the sf::Texture
\* the wrapper stands for, the same one for two wrappers that share it.
C2_TextureIsWrapped ==
    pc[1] = "done" =>
        /\ args[1].texture = NULL => StatesOf(1).texture = NULL
        /\ args[1].texture # NULL =>
              /\ StatesOf(1).texture = mem.textureThis[args[1].texture]
              /\ StatesOf(1).texture \in DOMAIN mem.texturePixels

\* C2 witness: a call given the second wrapper of a shared texture has
\* returned that texture.
C2_Witness ==
    /\ pc[1] = "done"
    /\ args[1].texture = "sfTexture2"
    /\ StatesOf(1).texture = "sf::Texture_A"
    /\ mem.textureThis["sfTexture1"] = StatesOf(1).texture

\* C3 as stated: a null shader handle gives an absent shader reference, and a
\* non-null handle gives a shader reference equal to that handle.
C3_ShaderIsHandle ==
    pc[1] = "done" =>
        /\ args[1].shader = NULL => StatesOf(1).shader = NULL
        /\ args[1].shader # NULL => StatesOf(1).shader = args[1].shader

\* C3 amended: a null shader handle gives an absent shader reference, and a
\* non-null handle gives the address of the sf::Shader embedded in its wrapper
\* (its This member): never absent, and a different one for each wrapper.
C3_ShaderIsEmbedded ==
    pc[1] = "done" =>
        /\ args[1].shader = NULL => StatesOf(1).shader = NULL
        /\ args[1].shader # NULL =>
              /\ StatesOf(1).shader # NULL
              /\ StatesOf(1).shader \notin ShaderHandles
              /\ \A h \in ShaderHandles :
                    StatesOf(1).shader = AddressOfThis(h) <=> h = args[1].shader

\* C3 witness: a call given a shader wrapper and no texture has returned the
\* shader embedded in the wrapper.
C3_Witness ==
    /\ pc[1] = "done"
    /\ args[1].shader = "sfShader2"
    /\ args[1].texture = NULL
    /\ StatesOf(1).shader = "sfShader2.This"

\* C4: the returned transform is what createTransform gives for the buffer
\* passed, whatever the codes and the handles are.
C4_TransformDelegated ==
    pc[1] = "done" =>
        StatesOf(1).transform = createTransform(mem.buffer[args[1].transform])

\* C4 witness: a call given a buffer that is not the identity has returned a
\* transform that holds that buffer's matrix.
C4_Witness ==
    /\ pc[1] = "done"
    /\ args[1].transform = "translation"
    /\ StatesOf(1).transform # IdentityTransform
    /\ StatesOf(1).transform.matrix = TranslationBuffer

\* The call of the example: codes 0, 1, 0 for colour and for alpha, the
\* identity buffer, no texture, no shader.
ExampleCall ==
    /\ pc[1] = "done"
    /\ args[1] = [ colorSrcFactor |-> 0, colorDstFactor |-> 1, colorEquation |-> 0,
                   alphaSrcFactor |-> 0, alphaDstFactor |-> 1, alphaEquation |-> 0,
                   transform |-> "identity", texture |-> NULL, shader |-> NULL ]

\* C5 as stated: the example call returns a blend mode under which the drawn
\* source overwrites the destination, the identity transform, and no texture
\* and no shader.
C5_ExampleReplaces ==
    ExampleCall =>
        /\ \A src \in Pixels, dst \in Pixels : Blend(StatesOf(1).blendMode, src, dst) = src
        /\ StatesOf(1).transform = IdentityTransform
        /\ StatesOf(1).texture = NULL
        /\ StatesOf(1).shader = NULL

\* C5 amended: the example call returns the blend mode (Zero, One, Add) for
\* colour and for alpha, under which the destination is kept and the drawn
\* source contributes nothing, the identity transform, and no texture and no
\* shader.
C5_ExampleKeepsDestination ==
    ExampleCall =>
        /\ StatesOf(1).blendMode =
              [ colorSrcFactor |-> Factor("Zero"), colorDstFactor |-> Factor("One"),
                colorEquation |-> Equation("Add"), alphaSrcFactor |-> Factor("Zero"),
                alphaDstFactor |-> Factor("One"), alphaEquation |-> Equation("Add") ]
        /\ \A src \in Pixels, dst \in Pixels : Blend(StatesOf(1).blendMode, src, dst) = dst
        /\ StatesOf(1).transform = IdentityTransform
        /\ StatesOf(1).texture = NULL
        /\ StatesOf(1).shader = NULL

\* C5 witness: the example call has returned, and drawing a lit pixel over a
\* dark one leaves the dark one.
C5_Witness ==
    /\ ExampleCall
    /\ result[1].returned
    /\ Blend(StatesOf(1).blendMode, [color |-> MaxChannel, alpha |-> MaxChannel],
             [color |-> 0, alpha |-> 0]) = [color |-> 0, alpha |-> 0]

C8_NoSideEffects ==
    /\ [][ mem' = mem /\ args' = args ]_vars
    /\ []( pc[1] = "done" =>
             /\ mem = InitialMemory
             /\ StatesOf(1).texture \in DOMAIN mem.texturePixels \cup {NULL}
             /\ StatesOf(1).shader \in { AddressOfThis(h) : h \in DOMAIN mem.shaderProgram } \cup {NULL} )

\* C8 witness: a call given a buffer, a texture and a shader has returned and
\* the memory is as it was before the call.
C8_Witness ==
    /\ pc[1] = "done"
    /\ args[1].texture = "sfTexture3" /\ args[1].shader = "sfShader1"
    /\ args[1].transform = "translation"
    /\ mem = InitialMemory
    /\ StatesOf(1).texture = "sf::Texture_B"

\* C9: with calls in flight together on shared wrappers and buffers, each
\* call hands back a record it could hand back when run alone, and a record
\* handed back is not altered by the calls still running.
C9_CallsDoNotInterfere ==
    /\ []( \A c \in Calls : pc[c] = "done" => result[c] \in createRenderStates(args[c], mem) )
    /\ [][ \A c \in Calls : pc[c] = "done" => result'[c] = result[c] ]_vars

\* C9 witness: two calls with different codes and texture handles, sharing
\* the transform buffer and the shader, have both returned, the second while
\* the first was between its casts and its return.
C9_Witness ==
    /\ pc[1] = "done" /\ pc[2] = "done"
    /\ args[1].colorSrcFactor # args[2].colorSrcFactor
    /\ args[1].texture # args[2].texture
    /\ args[1].transform = args[2].transform
    /\ args[1].shader = args[2].shader
    /\ StatesOf(1).blendMode # StatesOf(2).blendMode
    /\ StatesOf(1).texture # StatesOf(2).texture

\* The field of the returned record an input group decides.
FieldDecidedBy(g) ==
    IF g \in { "transform", "texture", "shader" } THEN << g >> ELSE << "blendMode", g >>

\* The part of the record r named by a path.
At(r, path) == IF Len(path) = 1 THEN r[path[1]] ELSE r[path[1]][path[2]]

====
